---- MODULE Spec2Model ----
(***************************************************************************)
(* Model of the LLM provider selection and execution adapter of the ADW    *)
(* scripts: adws/llm_provider.py (provider configuration, OpenAI client)   *)
(* and adws/agent.py (CLI preflight, dispatch, JSONL post-processing,      *)
(* routing between the Claude Code CLI and the OpenAI API).                *)
(*                                                                         *)
(* One call of prompt_claude_code is modelled as a small state machine:    *)
(*   start -> preflight -> dispatch -> running -> done   (CLI path)        *)
(*   start -> [preflight ->] openai -> done       (OpenAI path)            *)
(* The process environment (flags, keys), the installed CLI (whether it    *)
(* resolves, what it prints, its exit status, whether it ever exits) and   *)
(* the request are fixed by Init; I/O faults and the HTTP outcome are      *)
(* chosen when the step that meets them runs.  A second call running       *)
(* concurrently is modelled by its writes (OtherCall).                     *)
(***************************************************************************)
EXTENDS Integers, Sequences, FiniteSets, TLC

VARIABLES
    env,            \* process environment: variable name -> value or NoVal
    cli,            \* the installed CLI: [state, out, code, exits, duration]
    request,        \* AgentPromptRequest of the call
    pc,             \* position of the call
    elapsed,        \* minutes the CLI subprocess has been running
    fs,             \* file system: path -> content
    dirs,           \* directories that exist besides the working directory
    messages,       \* messages returned by parse_jsonl_output (agent.py:297)
    result_message, \* result message returned by parse_jsonl_output
    response,       \* AgentPromptResponse returned to the caller
    outcome,        \* "pending", "returned" or "raised" (an exception escaped)
    probes,         \* number of `claude --version` probes run
    dispatches,     \* number of CLI subprocesses started for the prompt
    httpCalls,      \* number of HTTP completion requests sent
    http,           \* outcome of the HTTP request, NoVal when none was sent
    backend,        \* executor entered: NoVal, "cli" or "openai"
    openai_model,   \* model name sent to OpenAI (agent.py:193)
    openai_result,  \* what prompt_openai returned (agent.py:198)
    child_env,      \* environment built for the CLI subprocess (agent.py:284)
    written,        \* paths this call has created or written
    other,          \* request of a concurrent call, NoRequest when there is none
    otherWritten,   \* paths the concurrent call has created or written
    template,       \* AgentTemplateRequest of execute_template, if it was called
    openai_prompt,  \* prompt passed to prompt_openai (agent.py:199)
    active_llm_provider, \* what check_env_vars reported, "pending" before it ran
    sql_route       \* what generate_sql did: [provider, priority], priority 0 before it ran

vars == <<env, cli, request, pc, elapsed, fs, dirs, messages, result_message,
          response, outcome, probes, dispatches, httpCalls, http,
          backend, openai_model, openai_result, child_env, written,
          other, otherWritten, template, openai_prompt,
          active_llm_provider, sql_route>>

\* None / an unset environment variable / an absent JSON field.
NoVal == "<none>"

-----------------------------------------------------------------------------
(* Bounds of the model.                                                    *)

\* Longest output stream (in lines) the CLI writes under SpecExec.
MaxLines == 3

\* The timeout the handler announces, in minutes (agent.py:330).
Timeout == 5

\* The subprocess clock stops here: far enough to overrun the timeout.
MaxElapsed == Timeout + 2

-----------------------------------------------------------------------------
(* llm_provider.py: configuration.                                         *)

\* str.lower() on the flag values the model draws.
Lower(s) == IF s = "TRUE" THEN "true" ELSE s

\* os.getenv(name, default)
Getenv(e, name, default) == IF e[name] = NoVal THEN default ELSE e[name]

\* Python truthiness of an Optional[str]: None and "" are falsy.
Truthy(v) == v # NoVal /\ v # ""

is_anthropic_enabled(e) == Lower(Getenv(e, "ANTHROPIC_ENABLED", "true")) = "true"

\* Faulty variant of is_openai_enabled: an absent flag counts as "true".
is_openai_enabled_default_true(e) == Lower(Getenv(e, "OPENAI_ENABLED", "true")) = "true"

is_openai_enabled(e) == Lower(Getenv(e, "OPENAI_ENABLED", "false")) = "true"

get_anthropic_api_key(e) == e["ANTHROPIC_API_KEY"]

get_openai_api_key(e) == e["OPENAI_API_KEY"]

\* Faulty variant of get_active_provider: OpenAI is tried first.
get_active_provider_openai_first(e) ==
    IF is_openai_enabled(e) /\ Truthy(get_openai_api_key(e)) THEN "openai"
    ELSE IF is_anthropic_enabled(e) /\ Truthy(get_anthropic_api_key(e)) THEN "anthropic"
    ELSE NoVal

\* get_active_provider: Anthropic first, then OpenAI, else None.
get_active_provider(e) ==
    IF is_anthropic_enabled(e) /\ Truthy(get_anthropic_api_key(e)) THEN "anthropic"
    ELSE IF is_openai_enabled(e) /\ Truthy(get_openai_api_key(e)) THEN "openai"
    ELSE NoVal

-----------------------------------------------------------------------------
(* Paths: a path is a sequence of tokens, "/" separating the components.   *)

\* str.replace('.jsonl', '.json'): every occurrence, wherever it stands.
ReplaceJsonl(p) == [i \in DOMAIN p |-> IF p[i] = ".jsonl" THEN ".json" ELSE p[i]]

SlashPositions(p) == {i \in DOMAIN p : p[i] = "/"}

LastSlash(p) == CHOOSE i \in SlashPositions(p) : \A j \in SlashPositions(p) : j <= i

\* os.path.dirname
Dirname(p) == IF SlashPositions(p) = {} THEN <<>> ELSE SubSeq(p, 1, LastSlash(p) - 1)

\* os.makedirs(d, exist_ok=True): d and every ancestor of d.
Makedirs(ds, d) ==
    IF d = <<>> THEN ds
    ELSE ds \cup {d} \cup {SubSeq(d, 1, i - 1) : i \in SlashPositions(d)}

\* open(p, "w") needs the directory of p.
DirExists(ds, p) == Dirname(p) = <<>> \/ Dirname(p) \in ds

-----------------------------------------------------------------------------
(* Lines of the output stream and file contents.                           *)

\* A line: blank, not JSON ("bad"), a JSON object ("obj") or another JSON
\* value ("nonobj").  Absent fields of an object hold NoVal.
Line(k, t, e, r, s) == [k |-> k, type |-> t, is_error |-> e, result |-> r, session_id |-> s]

BlankLine == Line("blank", NoVal, NoVal, NoVal, NoVal)
BadLine == Line("bad", NoVal, NoVal, NoVal, NoVal)
NonObjLine == Line("nonobj", NoVal, NoVal, NoVal, NoVal)
NoMessage == Line("none", NoVal, NoVal, NoVal, NoVal)

Progress == Line("obj", "progress", NoVal, NoVal, NoVal)
R1 == Line("obj", "result", "false", "R1", "S1")
R2 == Line("obj", "result", "true", "R2", NoVal)
R3 == Line("obj", "result", NoVal, "R3", "S3")

StreamLines == {BlankLine, BadLine, Progress, R1, R2, R3}

\* All streams of at most n lines.
Streams(n) == UNION {[1..k -> StreamLines] : k \in 0..n}

\* A file: absent, line-delimited ("lines"), a pretty-printed JSON array
\* of messages ("array"), or plain text ("text").
NoFile == [fmt |-> "none", lines |-> <<>>, text |-> <<>>]
LinesFile(ls) == [fmt |-> "lines", lines |-> ls, text |-> <<>>]
ArrayFile(ms) == [fmt |-> "array", lines |-> ms, text |-> <<>>]
TextFile(t) == [fmt |-> "text", lines |-> <<>>, text |-> t]

\* What `for line in f` yields.  json.dump(messages, indent=2) prints "[]"
\* for no message and otherwise spreads the array over several lines,
\* none of which is a JSON document ("[", "  {", ...).
ReadLines(c) ==
    IF c.fmt = "lines" THEN c.lines
    ELSE IF c.fmt = "array"
         THEN IF c.lines = <<>> THEN <<NonObjLine>>
              ELSE [i \in 1..(Len(c.lines) + 2) |-> BadLine]
    ELSE IF c.text = <<>> THEN <<>> ELSE <<BadLine>>

-----------------------------------------------------------------------------
(* agent.py: parse_jsonl_output and convert_jsonl_to_json.                 *)

ParseResult(ms, rm) == [messages |-> ms, result_message |-> rm]

\* The except branch of parse_jsonl_output (agent.py:75-77).
ParseFailed == ParseResult(<<>>, NoMessage)

\* `if line.strip()`
NonBlank(ls) == SelectSeq(ls, LAMBDA l : l.k # "blank")

MaxOf(S) == CHOOSE i \in S : \A j \in S : j <= i

MinOf(S) == CHOOSE i \in S : \A j \in S : i <= j

\* Where `for message in reversed(messages)` stops: at the last message
\* that is a result record, or that is no object (message.get raises).
ScanStops(ms) == {i \in DOMAIN ms : ms[i].k = "nonobj" \/ ms[i].type = "result"}

\* Faulty variant of ScanPick: the scan runs from the front and takes the
\* first result record.
ScanPick_first(ms) == MinOf(ScanStops(ms))

ScanPick(ms) == MaxOf(ScanStops(ms))

\* parse_jsonl_output: any exception (the file cannot be opened, a line is
\* not JSON, a message is not an object) yields ([], None).
parse_jsonl_output(c) ==
    IF c.fmt = "none" THEN ParseFailed
    ELSE LET ms == NonBlank(ReadLines(c)) IN
         IF \E i \in DOMAIN ms : ms[i].k = "bad" THEN ParseFailed
         ELSE IF ScanStops(ms) = {} THEN ParseResult(ms, NoMessage)
         ELSE IF ms[ScanPick(ms)].k = "nonobj" THEN ParseFailed
         ELSE ParseResult(ms, ms[ScanPick(ms)])

\* convert_jsonl_to_json: the file system after the JSON array is written.
convert_jsonl_to_json(f, jsonl_file) ==
    [f EXCEPT ![ReplaceJsonl(jsonl_file)] = ArrayFile(parse_jsonl_output(f[jsonl_file]).messages)]

\* json.load of the JSON-array file: the records it holds.
ArrayRecords(c) == IF c.fmt = "array" THEN c.lines ELSE <<>>

-----------------------------------------------------------------------------
(* agent.py: save_prompt.                                                  *)

\* \w of the regular expression, over the characters the model draws.
WordChars == {"a", "b"}

\* Length of the match of ^(/\w+), 0 when the prompt does not match.
SlashMatchLen(prompt) ==
    IF Len(prompt) < 2 \/ prompt[1] # "/" \/ prompt[2] \notin WordChars THEN 0
    ELSE MaxOf({n \in 2..Len(prompt) : \A i \in 2..n : prompt[i] \in WordChars})

\* slash_command[1:]
CommandName(prompt) == SubSeq(prompt, 2, SlashMatchLen(prompt))

PromptDir(adw_id, agent_name) ==
    <<"<root>", "/", "agents", "/", adw_id, "/", agent_name, "/", "prompts">>

PromptFile(req) ==
    PromptDir(req.adw_id, req.agent_name) \o <<"/">> \o CommandName(req.prompt) \o <<".txt">>

SavesPrompt(req) == SlashMatchLen(req.prompt) > 0

\* save_prompt: file system and directories afterwards.
save_prompt_fs(f, req) ==
    IF SavesPrompt(req) THEN [f EXCEPT ![PromptFile(req)] = TextFile(req.prompt)] ELSE f

\* The file save_prompt writes, if it writes one.
save_prompt_files(req) == IF SavesPrompt(req) THEN {PromptFile(req)} ELSE {}

save_prompt_dirs(ds, req) ==
    IF SavesPrompt(req) THEN Makedirs(ds, PromptDir(req.adw_id, req.agent_name)) ELSE ds

-----------------------------------------------------------------------------
(* The other two derivations of the provider: health_check.py and          *)
(* app/server/core/llm_processor.py.                                       *)

\* health_check.py:65-66, 104-105, 120-124: the active_llm_provider that
\* check_env_vars reports.
check_env_vars(e) ==
    LET anthropic_enabled == Lower(Getenv(e, "ANTHROPIC_ENABLED", "true")) = "true"
        openai_enabled == Lower(Getenv(e, "OPENAI_ENABLED", "false")) = "true"
        anthropic_configured == anthropic_enabled /\ Truthy(e["ANTHROPIC_API_KEY"])
        openai_configured == openai_enabled /\ Truthy(e["OPENAI_API_KEY"])
    IN  IF anthropic_configured THEN "anthropic"
        ELSE IF openai_configured THEN "openai"
        ELSE NoVal

\* What generate_sql did: the provider it called and the priority rule
\* under which it did; rule 4 raises the ValueError.
SqlRoute(pv, priority) == [provider |-> pv, priority |-> priority]

\* generate_sql has not been called.
NoRoute == SqlRoute(NoVal, 0)

\* llm_processor.py:149-175: generate_sql, llm_provider the preference of
\* the request.
generate_sql(e, llm_provider) ==
    LET anthropic_enabled == Lower(Getenv(e, "ANTHROPIC_ENABLED", "true")) = "true"
        openai_enabled == Lower(Getenv(e, "OPENAI_ENABLED", "true")) = "true"
        openai_key == e["OPENAI_API_KEY"]
        anthropic_key == e["ANTHROPIC_API_KEY"]
    IN  IF anthropic_enabled /\ Truthy(anthropic_key) THEN SqlRoute("anthropic", 1)
        ELSE IF openai_enabled /\ Truthy(openai_key) THEN SqlRoute("openai", 2)
        ELSE IF llm_provider = "openai" /\ Truthy(openai_key) THEN SqlRoute("openai", 3)
        ELSE IF llm_provider = "anthropic" /\ Truthy(anthropic_key) THEN SqlRoute("anthropic", 3)
        ELSE SqlRoute(NoVal, 4)

-----------------------------------------------------------------------------
(* llm_provider.py: get_openai_model_for_claude_model.                     *)

\* The model_mapping table (llm_provider.py:70-80).
model_mapping ==
    "sonnet" :> "gpt-4o" @@
    "opus" :> "gpt-4o" @@
    "haiku" :> "gpt-4o-mini" @@
    "claude-3-5-sonnet-20241022" :> "gpt-4o" @@
    "claude-3-5-haiku-20241022" :> "gpt-4o-mini" @@
    "claude-3-opus-20240229" :> "gpt-4o" @@
    "claude-sonnet-4-20250514" :> "gpt-4o" @@
    "claude-opus-4-5-20251101" :> "gpt-4o"

\* Faulty variant of get_openai_model_for_claude_model: dict.get without
\* a default.
get_openai_model_for_claude_model_nodefault(claude_model) ==
    IF claude_model \in DOMAIN model_mapping THEN model_mapping[claude_model] ELSE NoVal

\* model_mapping.get(claude_model, "gpt-4o")
get_openai_model_for_claude_model(claude_model) ==
    IF claude_model \in DOMAIN model_mapping THEN model_mapping[claude_model] ELSE "gpt-4o"

-----------------------------------------------------------------------------
(* llm_provider.py: prompt_openai.                                         *)

\* What urlopen and the decoding of its response can do: a completion, a
\* body without choices, an HTTP error status, a URLError, any other
\* exception (a body that is not JSON, a timeout while reading).
HttpOutcomes == {"ok", "nochoices", "401", "429", "500", "urlerror", "exception"}

OpenAIResult(s, o, u) == [success |-> s, output |-> o, usage |-> u]

\* prompt_openai has not been called.
NoResult == OpenAIResult(FALSE, NoVal, NoVal)

\* prompt_openai sends its request only with a key (llm_provider.py:110).
SendsHttp(e) == Truthy(get_openai_api_key(e))

\* Faulty variant of prompt_openai: 401 is reported like any other HTTP
\* error status.
prompt_openai_no401(e, h) ==
    IF ~SendsHttp(e) THEN OpenAIResult(FALSE, "OPENAI_API_KEY not set", NoVal)
    ELSE IF h = "ok" THEN OpenAIResult(TRUE, "A1", "U1")
    ELSE IF h = "nochoices" THEN OpenAIResult(FALSE, "No response from OpenAI API", NoVal)
    ELSE IF h \in {"401", "429", "500"}
    THEN OpenAIResult(FALSE, "OpenAI API error: " \o h \o " reason - body", NoVal)
    ELSE IF h = "urlerror" THEN OpenAIResult(FALSE, "OpenAI API connection failed: reason", NoVal)
    ELSE OpenAIResult(FALSE, "OpenAI API error: exception", NoVal)

\* prompt_openai, h the outcome of urlopen.
prompt_openai(e, h) ==
    IF ~SendsHttp(e) THEN OpenAIResult(FALSE, "OPENAI_API_KEY not set", NoVal)
    ELSE IF h = "ok" THEN OpenAIResult(TRUE, "A1", "U1")
    ELSE IF h = "nochoices" THEN OpenAIResult(FALSE, "No response from OpenAI API", NoVal)
    ELSE IF h = "401" THEN OpenAIResult(FALSE, "OpenAI API key is invalid (401 Unauthorized)", NoVal)
    ELSE IF h \in {"429", "500"}
    THEN OpenAIResult(FALSE, "OpenAI API error: " \o h \o " reason - body", NoVal)
    ELSE IF h = "urlerror" THEN OpenAIResult(FALSE, "OpenAI API connection failed: reason", NoVal)
    ELSE OpenAIResult(FALSE, "OpenAI API error: exception", NoVal)

-----------------------------------------------------------------------------
(* The process environment.                                                *)

\* The variables the provider configuration reads.
EnvVars == {"ANTHROPIC_ENABLED", "OPENAI_ENABLED", "ANTHROPIC_API_KEY", "OPENAI_API_KEY"}

\* The other variables get_claude_env reads or writes (agent.py:130-142),
\* and one it does not name (APPDATA, agent.py:109).
OtherVars ==
    {"CLAUDE_CODE_PATH", "CLAUDE_BASH_MAINTAIN_PROJECT_WORKING_DIR", "E2B_API_KEY",
     "GITHUB_PAT", "GH_TOKEN", "APPDATA"}

AllVars == EnvVars \cup OtherVars

FlagValues == {NoVal, "true", "TRUE", "false"}

KeyValues == {NoVal, "", "sk-key"}

\* An environment in which only the provider configuration may be set.
MkEnv(ae, oe, ak, ok) ==
    [v \in AllVars |->
        IF v = "ANTHROPIC_ENABLED" THEN ae
        ELSE IF v = "OPENAI_ENABLED" THEN oe
        ELSE IF v = "ANTHROPIC_API_KEY" THEN ak
        ELSE IF v = "OPENAI_API_KEY" THEN ok
        ELSE NoVal]

Envs == {MkEnv(ae, oe, ak, ok) : ae \in FlagValues, oe \in FlagValues,
                                 ak \in KeyValues, ok \in KeyValues}

\* The values the model draws for the other variables.
OtherValues(v) ==
    IF v = "CLAUDE_CODE_PATH" THEN {NoVal, "claude2"}
    ELSE IF v = "CLAUDE_BASH_MAINTAIN_PROJECT_WORKING_DIR" THEN {NoVal, "false"}
    ELSE IF v = "E2B_API_KEY" THEN {NoVal, "", "e2b"}
    ELSE IF v = "GITHUB_PAT" THEN {NoVal, "", "pat"}
    ELSE IF v = "GH_TOKEN" THEN {NoVal, "tok"}
    ELSE {NoVal, "appdata"}

\* Every environment: a provider configuration and any other variables.
FullEnvs ==
    {[v \in AllVars |-> IF v \in EnvVars THEN e[v] ELSE o[v]] :
        e \in Envs,
        o \in {f \in [OtherVars -> {NoVal, "", "claude2", "false", "e2b", "pat", "tok", "appdata"}] :
                  \A v \in OtherVars : f[v] \in OtherValues(v)}}

-----------------------------------------------------------------------------
(* agent.py: get_claude_env.                                               *)

ConfigKeys ==
    {"ANTHROPIC_API_KEY", "OPENAI_API_KEY", "ANTHROPIC_ENABLED", "OPENAI_ENABLED",
     "CLAUDE_CODE_PATH", "CLAUDE_BASH_MAINTAIN_PROJECT_WORKING_DIR", "E2B_API_KEY",
     "GITHUB_PAT", "GH_TOKEN"}

\* agent.py:119-140: config_vars; NoVal is None or a key that is not set.
config_vars(e) ==
    [k \in ConfigKeys |->
        IF k = "ANTHROPIC_ENABLED" THEN Getenv(e, k, "true")
        ELSE IF k = "OPENAI_ENABLED" THEN Getenv(e, k, "false")
        ELSE IF k = "CLAUDE_CODE_PATH" THEN Getenv(e, k, "claude")
        ELSE IF k = "CLAUDE_BASH_MAINTAIN_PROJECT_WORKING_DIR" THEN Getenv(e, k, "true")
        ELSE IF k \in {"GITHUB_PAT", "GH_TOKEN"}
             THEN IF Truthy(e["GITHUB_PAT"]) THEN e["GITHUB_PAT"] ELSE NoVal
        ELSE e[k]]

\* Faulty variant of get_claude_env: starts from an empty environment.
get_claude_env_fresh(e) ==
    [v \in AllVars |-> IF v \in ConfigKeys THEN config_vars(e)[v] ELSE NoVal]

\* agent.py:116-149: a copy of os.environ with the non-None config_vars
\* merged in.
get_claude_env(e) ==
    [v \in AllVars |->
        IF v \in ConfigKeys /\ config_vars(e)[v] # NoVal THEN config_vars(e)[v] ELSE e[v]]

\* get_claude_env has not been called.
NoEnv == [v \in AllVars |-> NoVal]

-----------------------------------------------------------------------------
(* The installed CLI and the requests the model draws.                     *)

\* `claude --version`: exits 0 ("installed"), exits non-zero ("broken"),
\* is not found ("absent"), or cannot be executed ("denied").
CliStates == {"installed", "broken", "absent", "denied"}

\* The CLI writes nothing to stderr unless a run sets the field.
Cli(st, out, code, exits, duration) ==
    [state |-> st, out |-> out, code |-> code, exits |-> exits, duration |-> duration,
     stderr |-> ""]

Providers == {"anthropic", "openai", NoVal}

Prompts == {<<"/", "a">>, <<"a">>}

OutPaths ==
    {<<"out", ".jsonl">>, <<"out", ".txt">>, <<"run", ".jsonl", "/", "out", ".jsonl">>}

Request(pv, pr, of) ==
    [provider |-> pv, prompt |-> pr, output_file |-> of, adw_id |-> "adw1",
     agent_name |-> "ops", model |-> "sonnet", dangerously_skip_permissions |-> FALSE]

\* There is no concurrent call.
NoRequest == Request(NoVal, <<>>, <<>>)

Requests == {Request(pv, pr, of) : pv \in Providers, pr \in Prompts, of \in OutPaths}

\* Model names: the keys of model_mapping, the empty string, other strings.
Models == DOMAIN model_mapping \cup {"", "SONNET", "gpt-4"}

\* Prompts around the pattern of save_prompt: a command followed by an
\* argument, a command holding a hyphen, a marker followed by no word
\* character, a marker that is not at the start.
AuditPrompts ==
    {<<"/", "a", " ", "b">>, <<"/", "a", "-", "b">>, <<"/", "-", "a">>, <<"/">>,
     <<" ", "/", "a">>}

AllPrompts == Prompts \cup AuditPrompts

\* Output paths of a concurrent call.
OtherPaths == {<<"two", ".jsonl">>, <<"out", ".json">>, <<"out", ".jsonl">>}

AdwIds == {"adw1", "adw2"}

\* Requests of a concurrent call; it names OpenAI as its provider.
OtherRequests ==
    {[Request("openai", pr, of) EXCEPT !.adw_id = a] :
        pr \in {<<"/", "a", " ", "b">>, <<"/", "b">>, <<"a">>}, of \in OtherPaths, a \in AdwIds}

\* AgentTemplateRequest
Template(sc, args, pv) ==
    [slash_command |-> sc, args |-> args, provider |-> pv, adw_id |-> "adw1",
     agent_name |-> "ops", model |-> "sonnet"]

\* execute_template was not called.
NoTemplate == Template(<<>>, <<>>, NoVal)

\* A slash command without arguments, with one and with two.
Templates ==
    {Template(<<"/", "a">>, args, pv) :
        args \in {<<>>, <<<<"b">>>>, <<<<"b">>, <<"a">>>>}, pv \in Providers}

\* ' '.join(args)
RECURSIVE JoinArgs(_)
JoinArgs(args) ==
    IF args = <<>> THEN <<>>
    ELSE IF Len(args) = 1 THEN args[1]
    ELSE args[1] \o <<" ">> \o JoinArgs(Tail(args))

\* agent.py:347: f"{request.slash_command} {' '.join(request.args)}"
TemplatePrompt(t) == t.slash_command \o <<" ">> \o JoinArgs(t.args)

\* Faulty variant of TemplateProvider: every template that names a
\* provider is sent to OpenAI.
TemplateProvider_always_openai(e, pv) == IF pv = NoVal THEN pv ELSE "openai"

\* agent.py:350-354: the provider execute_template passes on.
TemplateProvider(e, pv) ==
    IF pv = "anthropic" /\ get_active_provider(e) = "openai" THEN "openai" ELSE pv

\* agent.py:357-358: <root>/agents/<adw_id>/<agent_name>
TemplateOutputDir(t) == <<"<root>", "/", "agents", "/", t.adw_id, "/", t.agent_name>>

\* agent.py:362
TemplateOutputFile(t) == TemplateOutputDir(t) \o <<"/", "raw_output", ".jsonl">>

\* agent.py:365-373: the AgentPromptRequest execute_template builds.
TemplateRequest(e, t) ==
    [provider |-> TemplateProvider(e, t.provider), prompt |-> TemplatePrompt(t),
     output_file |-> TemplateOutputFile(t), adw_id |-> t.adw_id,
     agent_name |-> t.agent_name, model |-> t.model, dangerously_skip_permissions |-> TRUE]

\* Every path a call can touch.
AllPaths ==
    LET outs == OutPaths \cup OtherPaths \cup {TemplateOutputFile(t) : t \in Templates} IN
    outs \cup {ReplaceJsonl(p) : p \in outs}
         \cup {PromptFile([Request(NoVal, pr, <<>>) EXCEPT !.adw_id = a]) :
                   pr \in {q \in AllPrompts \cup {<<"/", "b">>} : SlashMatchLen(q) > 0}, a \in AdwIds}

-----------------------------------------------------------------------------
(* AgentPromptResponse.  output is the message text, or, for the raw       *)
(* fallback (agent.py:317-323), the content read back from the file.       *)

Response(text, raw, success, session_id) ==
    [output |-> [text |-> text, raw |-> raw], success |-> success, session_id |-> session_id]

NoResponse == Response(NoVal, NoFile, FALSE, NoVal)

NotInstalledMsg == "Error: Claude Code CLI is not installed"
TimedOutMsg == "Error: Claude Code command timed out after 5 minutes"
ExecErrorMsg == "Error executing Claude Code: exception"

\* Faulty variant of CliErrorMsg: the captured stderr is dropped.
CliErrorMsg_nostderr(stderr) == "Claude Code error: "

\* agent.py:326: f"Claude Code error: {result.stderr}"
CliErrorMsg(stderr) == "Claude Code error: " \o stderr

Failure(text) == Response(text, NoFile, FALSE, NoVal)

\* agent.py:302-314: the response built from the result message;
\* result defaults to "", is_error to False, session_id to None.
ResultResponse(rm) ==
    Response(IF rm.result = NoVal THEN "" ELSE rm.result, NoFile, rm.is_error # "true", rm.session_id)

\* agent.py:317-323: the raw content of the output file.
RawResponse(c) == Response("", c, TRUE, NoVal)

-----------------------------------------------------------------------------
(* State machine of one call of prompt_claude_code.                        *)

TypeOK ==
    /\ env \in FullEnvs
    /\ cli.state \in CliStates
    /\ \/ request = NoRequest /\ pc \in {"template", "done"}
       \/ request \in {TemplateRequest(env, t) : t \in Templates}
       \/ /\ request.provider \in Providers /\ request.prompt \in AllPrompts
          /\ request.output_file \in OutPaths /\ request.model \in Models
    /\ template = NoTemplate \/ template \in Templates
    /\ pc \in {"template", "start", "preflight", "dispatch", "running", "openai", "done"}
    /\ elapsed \in 0..MaxElapsed
    /\ DOMAIN fs = AllPaths
    /\ outcome \in {"pending", "returned", "raised"}
    /\ probes \in 0..1 /\ dispatches \in 0..1 /\ httpCalls \in 0..1
    /\ backend \in {NoVal, "cli", "openai"}
    /\ written \subseteq AllPaths /\ otherWritten \subseteq AllPaths
    /\ other = NoRequest \/ other \in OtherRequests
    /\ active_llm_provider \in {"pending", "anthropic", "openai", NoVal}
    /\ sql_route.priority \in 0..4

\* Nothing has been done yet.
InitIdle ==
    /\ elapsed = 0
    /\ fs = [p \in AllPaths |-> NoFile]
    /\ dirs = {}
    /\ messages = <<>>
    /\ result_message = NoMessage
    /\ response = NoResponse
    /\ outcome = "pending"
    /\ probes = 0
    /\ dispatches = 0
    /\ httpCalls = 0
    /\ http = NoVal
    /\ backend = NoVal
    /\ openai_model = NoVal
    /\ openai_result = NoResult
    /\ child_env = NoEnv
    /\ openai_prompt = <<>>
    /\ active_llm_provider = "pending"
    /\ sql_route = NoRoute
    /\ written = {}
    /\ otherWritten = {}

\* prompt_claude_code is called directly.
InitCall ==
    /\ pc = "start"
    /\ template = NoTemplate
    /\ InitIdle

\* What the CLI does under Spec: one of a few short runs.
ShortRuns ==
    {Cli("installed", <<>>, 0, TRUE, 0),
     Cli("installed", <<R1>>, 0, TRUE, 0),
     Cli("installed", <<Progress, R2>>, 0, TRUE, 1),
     [Cli("installed", <<R1>>, 1, TRUE, 0) EXCEPT !.stderr = "boom"],
     Cli("installed", <<>>, 0, FALSE, 0)}

\* What the CLI does under SpecTemplate.
TemplateRuns ==
    {Cli("installed", <<Progress, R2>>, 0, TRUE, 1),
     [Cli("installed", <<R1>>, 1, TRUE, 0) EXCEPT !.stderr = "boom"]}

\* Every environment, request and CLI state; the CLI's run is a short one.
Init ==
    /\ env \in Envs
    /\ request \in Requests
    /\ \E st \in CliStates, run \in ShortRuns :
          cli = [run EXCEPT !.state = st]
    /\ other = NoRequest
    /\ InitCall

\* Environment, requested provider and CLI state under SpecExec: the CLI
\* path (both providers configured; defaults only), the fall-back to
\* OpenAI, a CLI that cannot be started, a probe that raises.
ExecRoutes ==
    {<<MkEnv("true", "true", "sk-key", "sk-key"), "anthropic", "installed">>,
     <<MkEnv(NoVal, NoVal, "sk-key", NoVal), NoVal, "installed">>,
     <<MkEnv("false", "TRUE", NoVal, "sk-key"), "anthropic", "absent">>,
     <<MkEnv("false", "false", NoVal, NoVal), NoVal, "absent">>,
     <<MkEnv("true", "false", "sk-key", NoVal), "anthropic", "denied">>}

\* How long the CLI runs: it exits at once, exits after the timeout has
\* passed, or never exits.
Timings == {<<TRUE, 0>>, <<TRUE, Timeout + 1>>, <<FALSE, 0>>}

\* Exit status and stderr of the CLI.
Exits == {<<0, "">>, <<1, "">>, <<1, "boom">>}

\* A few routes; every stream of at most MaxLines lines, exit status and timing.
InitExec ==
    /\ \E rt \in ExecRoutes, pr \in Prompts, of \in OutPaths :
          /\ env = rt[1]
          /\ request = Request(rt[2], pr, of)
          /\ \E out \in Streams(MaxLines), ex \in Exits, tm \in Timings :
                cli = [Cli(rt[3], out, ex[1], tm[1], tm[2]) EXCEPT !.stderr = ex[2]]
    /\ other = NoRequest
    /\ InitCall

\* Faulty variant of Return: a failure met on the CLI path is followed by
\* an attempt through OpenAI.
Return_retry(r) ==
    /\ response' = r
    /\ outcome' = "returned"
    /\ pc' = IF ~r.success /\ backend = "cli" THEN "openai" ELSE "done"

\* prompt_claude_code returns r.
Return(r) ==
    /\ response' = r
    /\ outcome' = "returned"
    /\ pc' = "done"

\* An exception leaves prompt_claude_code.
Raise ==
    /\ response' = NoResponse
    /\ outcome' = "raised"
    /\ pc' = "done"

\* Faulty variant of RoutesToOpenAI: a request that names OpenAI is not
\* routed unless OpenAI is the active provider.
RoutesToOpenAI_active_only(e, req) ==
    req.provider \in {"anthropic", "openai"} /\ get_active_provider(e) = "openai"

\* Faulty variant of RoutesToOpenAI: only a request that names OpenAI is
\* routed.
RoutesToOpenAI_explicit_only(e, req) == req.provider = "openai"

\* agent.py:243-253: the request goes to execute_prompt_openai at once.
RoutesToOpenAI(e, req) ==
    \/ req.provider = "anthropic" /\ get_active_provider(e) = "openai"
    \/ req.provider = "openai"

Route ==
    /\ pc = "start"
    /\ pc' = IF RoutesToOpenAI(env, request) THEN "openai" ELSE "preflight"
    /\ UNCHANGED <<env, cli, request, elapsed, fs, dirs, messages, result_message,
                   response, outcome, probes, dispatches, httpCalls, http,
                   backend, openai_model, openai_result, child_env, written,
                   other, otherWritten,
                   template, openai_prompt,
                   active_llm_provider, sql_route>>

\* check_claude_installed: "ok" (None), "missing" (the error message) or
\* "raised" (subprocess.run raised something other than FileNotFoundError).
check_claude_installed(e, c) ==
    IF ~is_anthropic_enabled(e) THEN "ok"
    ELSE IF c.state = "installed" THEN "ok"
    ELSE IF c.state \in {"broken", "absent"} THEN "missing"
    ELSE "raised"

\* agent.py:260: the fall-back taken when the CLI is missing.
FallsBackToOpenAI(e) == get_active_provider(e) = "openai"

\* Faulty variant of Preflight: the prompt is saved before the probe.
Preflight_saves_first ==
    /\ pc = "preflight"
    /\ fs' = save_prompt_fs(fs, request)
    /\ dirs' = save_prompt_dirs(dirs, request)
    /\ written' = written \cup save_prompt_files(request)
    /\ probes' = IF is_anthropic_enabled(env) THEN probes + 1 ELSE probes
    /\ LET chk == check_claude_installed(env, cli) IN
          IF chk = "raised" THEN Raise
          ELSE IF chk = "missing"
               THEN IF FallsBackToOpenAI(env)
                    THEN pc' = "openai" /\ UNCHANGED <<response, outcome>>
                    ELSE Return(Failure(NotInstalledMsg))
          ELSE pc' = "dispatch" /\ UNCHANGED <<response, outcome>>
    /\ UNCHANGED <<env, cli, request, elapsed, messages, result_message,
                   dispatches, httpCalls, http,
                   backend, openai_model, openai_result, child_env,
                   other, otherWritten,
                   template, openai_prompt,
                   active_llm_provider, sql_route>>

\* agent.py:257-263
Preflight ==
    /\ pc = "preflight"
    /\ probes' = IF is_anthropic_enabled(env) THEN probes + 1 ELSE probes
    /\ LET chk == check_claude_installed(env, cli) IN
          IF chk = "raised" THEN Raise
          ELSE IF chk = "missing"
               THEN IF FallsBackToOpenAI(env)
                    THEN pc' = "openai" /\ UNCHANGED <<response, outcome>>
                    ELSE Return(Failure(NotInstalledMsg))
          ELSE pc' = "dispatch" /\ UNCHANGED <<response, outcome>>
    /\ UNCHANGED <<env, cli, request, elapsed, fs, dirs, messages, result_message,
                   dispatches, httpCalls, http,
                   backend, openai_model, openai_result, child_env, written,
                   other, otherWritten,
                   template, openai_prompt,
                   active_llm_provider, sql_route>>

\* Where an I/O operation of the CLI path can fail.
DispatchFaults == {"none", "audit", "outdir", "outfile"}

FaultApplies(fault, req) ==
    /\ fault = "audit" => SavesPrompt(req)
    /\ fault = "outdir" => Dirname(req.output_file) # <<>>

\* agent.py:266-291, up to the start of the subprocess.  save_prompt and
\* os.makedirs stand outside the try block; open() and subprocess.run
\* stand inside it.  subprocess.run is given no timeout.
Dispatch ==
    /\ pc = "dispatch"
    /\ backend' = "cli"
    /\ \E fault \in DispatchFaults :
          /\ FaultApplies(fault, request)
          /\ LET of == request.output_file
                 fs1 == save_prompt_fs(fs, request)
                 ds1 == save_prompt_dirs(dirs, request)
                 w1 == written \cup save_prompt_files(request)
                 ds2 == Makedirs(ds1, Dirname(of))
                 fs2 == [fs1 EXCEPT ![of] = LinesFile(<<>>)]
             IN  IF fault = "audit"
                 THEN Raise /\ UNCHANGED <<fs, dirs, dispatches, child_env, written>>
                 ELSE IF fault = "outdir"
                 THEN /\ Raise
                      /\ fs' = fs1 /\ dirs' = ds1 /\ written' = w1
                      /\ UNCHANGED <<dispatches, child_env>>
                 ELSE IF fault = "outfile"
                 THEN /\ Return(Failure(ExecErrorMsg))
                      /\ fs' = fs1 /\ dirs' = ds2 /\ written' = w1
                      /\ child_env' = get_claude_env(env)
                      /\ UNCHANGED dispatches
                 ELSE IF cli.state \in {"absent", "denied"}
                 THEN /\ Return(Failure(ExecErrorMsg))
                      /\ fs' = fs2 /\ dirs' = ds2 /\ written' = w1 \cup {of}
                      /\ child_env' = get_claude_env(env)
                      /\ UNCHANGED dispatches
                 ELSE /\ pc' = "running"
                      /\ fs' = fs2 /\ dirs' = ds2 /\ written' = w1 \cup {of}
                      /\ child_env' = get_claude_env(env)
                      /\ dispatches' = dispatches + 1
                      /\ UNCHANGED <<response, outcome>>
    /\ UNCHANGED <<env, cli, request, elapsed, messages, result_message,
                   probes, httpCalls, http, openai_model, openai_result,
                   other, otherWritten,
                   template, openai_prompt,
                   active_llm_provider, sql_route>>

\* A minute passes while subprocess.run waits for the CLI.
Tick ==
    /\ pc = "running"
    /\ elapsed < MaxElapsed
    /\ ~cli.exits \/ elapsed < cli.duration
    /\ elapsed' = elapsed + 1
    /\ UNCHANGED <<env, cli, request, pc, fs, dirs, messages, result_message,
                   response, outcome, probes, dispatches, httpCalls, http,
                   backend, openai_model, openai_result, child_env, written,
                   other, otherWritten,
                   template, openai_prompt,
                   active_llm_provider, sql_route>>

ReturnFaults == {"none", "jsonfile", "read"}

\* agent.py:293-336: the CLI exits and the handler builds its response.
CliReturn ==
    /\ pc = "running"
    /\ cli.exits
    /\ elapsed = cli.duration
    /\ LET of == request.output_file
           fs1 == [fs EXCEPT ![of] = LinesFile(cli.out)]
           parsed == parse_jsonl_output(fs1[of])
           fs2 == convert_jsonl_to_json(fs1, of)
           w2 == written \cup {ReplaceJsonl(of)}
       IN  IF cli.code # 0
           THEN /\ Return(Failure(CliErrorMsg(cli.stderr)))
                /\ fs' = fs1
                /\ UNCHANGED <<messages, result_message, written>>
           ELSE /\ messages' = parsed.messages
                /\ result_message' = parsed.result_message
                /\ \E fault \in ReturnFaults :
                      IF fault = "jsonfile" \/ ~DirExists(dirs, ReplaceJsonl(of))
                      THEN Return(Failure(ExecErrorMsg)) /\ fs' = fs1 /\ UNCHANGED written
                      ELSE IF parsed.result_message # NoMessage
                      THEN Return(ResultResponse(parsed.result_message)) /\ fs' = fs2 /\ written' = w2
                      ELSE IF fault = "read"
                      THEN Return(Failure(ExecErrorMsg)) /\ fs' = fs2 /\ written' = w2
                      ELSE Return(RawResponse(fs2[of])) /\ fs' = fs2 /\ written' = w2
    /\ UNCHANGED <<env, cli, request, elapsed, dirs, probes, dispatches, httpCalls, http,
                   backend, openai_model, openai_result, child_env, other, otherWritten,
                   template, openai_prompt,
                   active_llm_provider, sql_route>>

OpenAIFaults == {"none", "audit", "outdir", "outfile", "jsonfile"}

\* agent.py:206-215: the record written for an OpenAI result.
OutputData(res) ==
    Line("obj", "result", IF res.success THEN "false" ELSE "true", res.output, NoVal)

\* agent.py:176-232: execute_prompt_openai.  Nothing here stands in a try
\* block; prompt_openai itself catches every exception of the request.
OpenAI ==
    /\ pc = "openai"
    /\ backend' = "openai"
    /\ \E h \in HttpOutcomes, fault \in OpenAIFaults :
          /\ FaultApplies(fault, request)
          /\ LET of == request.output_file
                 res == prompt_openai(env, h)
                 fs1 == save_prompt_fs(fs, request)
                 ds1 == save_prompt_dirs(dirs, request)
                 w1 == written \cup save_prompt_files(request)
                 ds2 == Makedirs(ds1, Dirname(of))
                 fs2 == [fs1 EXCEPT ![of] = LinesFile(<<OutputData(res)>>)]
                 fs3 == [fs2 EXCEPT ![ReplaceJsonl(of)] = ArrayFile(<<OutputData(res)>>)]
                 called == fault \notin {"audit", "outdir"}
                 sent == called /\ SendsHttp(env)
             IN  /\ httpCalls' = IF sent THEN httpCalls + 1 ELSE httpCalls
                 /\ http' = IF sent THEN h ELSE NoVal
                 /\ openai_model' = IF called THEN get_openai_model_for_claude_model(request.model)
                                    ELSE openai_model
                 /\ openai_result' = IF called THEN res ELSE openai_result
                 /\ openai_prompt' = IF called THEN request.prompt ELSE openai_prompt
                 /\ IF fault = "audit"
                    THEN Raise /\ UNCHANGED <<fs, dirs, written>>
                    ELSE IF fault = "outdir"
                    THEN Raise /\ fs' = fs1 /\ dirs' = ds1 /\ written' = w1
                    ELSE IF fault = "outfile"
                    THEN Raise /\ fs' = fs1 /\ dirs' = ds2 /\ written' = w1
                    ELSE IF fault = "jsonfile" \/ ~DirExists(ds2, ReplaceJsonl(of))
                    THEN Raise /\ fs' = fs2 /\ dirs' = ds2 /\ written' = w1 \cup {of}
                    ELSE /\ Return(Response(res.output, NoFile, res.success, NoVal))
                         /\ fs' = fs3 /\ dirs' = ds2
                         /\ written' = w1 \cup {of, ReplaceJsonl(of)}
    /\ UNCHANGED <<env, cli, request, elapsed, messages, result_message,
                   probes, dispatches, child_env, other, otherWritten, template,
                   active_llm_provider, sql_route>>

\* A concurrent call of prompt_claude_code with the request `other`, which
\* names OpenAI: it runs execute_prompt_openai (agent.py:176-232) between
\* two steps of this call, without an I/O fault.
OtherCall ==
    /\ other # NoRequest
    /\ otherWritten = {}
    /\ \E h \in HttpOutcomes :
          LET of == other.output_file
              res == prompt_openai(env, h)
              fs1 == save_prompt_fs(fs, other)
              ds2 == Makedirs(save_prompt_dirs(dirs, other), Dirname(of))
              fs2 == [fs1 EXCEPT ![of] = LinesFile(<<OutputData(res)>>)]
              fs3 == [fs2 EXCEPT ![ReplaceJsonl(of)] = ArrayFile(<<OutputData(res)>>)]
          IN  /\ DirExists(ds2, ReplaceJsonl(of))
              /\ fs' = fs3
              /\ dirs' = ds2
              /\ otherWritten' = save_prompt_files(other) \cup {of, ReplaceJsonl(of)}
    /\ UNCHANGED <<env, cli, request, pc, elapsed, messages, result_message,
                   response, outcome, probes, dispatches, httpCalls, http,
                   backend, openai_model, openai_result, child_env, written, other,
                   template, openai_prompt,
                   active_llm_provider, sql_route>>

\* Where an I/O operation of execute_template can fail.
TemplateFaults == {"none", "outdir"}

\* agent.py:339-376: execute_template, up to its call of prompt_claude_code.
\* os.makedirs stands in no try block.
execute_template ==
    /\ pc = "template"
    /\ \E fault \in TemplateFaults :
          IF fault = "outdir"
          THEN Raise /\ UNCHANGED <<request, dirs>>
          ELSE /\ request' = TemplateRequest(env, template)
               /\ dirs' = Makedirs(dirs, TemplateOutputDir(template))
               /\ pc' = "start"
               /\ UNCHANGED <<response, outcome>>
    /\ UNCHANGED <<env, cli, elapsed, fs, messages, result_message,
                   probes, dispatches, httpCalls, http,
                   backend, openai_model, openai_result, child_env, written,
                   other, otherWritten, template, openai_prompt,
                   active_llm_provider, sql_route>>

Next == Route \/ Preflight \/ Dispatch \/ Tick \/ CliReturn \/ OpenAI

\* Every configuration, request and CLI state, with short CLI runs.
Spec == Init /\ [][Next]_vars

\* A few routes, with every output stream of at most MaxLines lines.
SpecExec == InitExec /\ [][Next]_vars

\* A few routes and short runs, with every model name.
InitMap ==
    /\ \E rt \in ExecRoutes, pr \in Prompts, of \in OutPaths, m \in Models, run \in ShortRuns :
          /\ env = rt[1]
          /\ request = [Request(rt[2], pr, of) EXCEPT !.model = m]
          /\ cli = [run EXCEPT !.state = rt[3]]
    /\ other = NoRequest
    /\ InitCall

SpecMap == InitMap /\ [][Next]_vars

\* Every environment; the CLI resolves or is absent.
InitEnv ==
    /\ env \in FullEnvs
    /\ request = Request(NoVal, <<"/", "a">>, <<"out", ".jsonl">>)
    /\ \E st \in {"installed", "absent"} :
          cli = Cli(st, <<Progress, R2>>, 0, TRUE, 1)
    /\ other = NoRequest
    /\ InitCall

SpecEnv == InitEnv /\ [][Next]_vars

\* A few routes and short runs, with every prompt.
InitAudit ==
    /\ \E rt \in ExecRoutes, pr \in AllPrompts, of \in OutPaths, run \in ShortRuns :
          /\ env = rt[1]
          /\ request = Request(rt[2], pr, of)
          /\ cli = [run EXCEPT !.state = rt[3]]
    /\ other = NoRequest
    /\ InitCall

SpecAudit == InitAudit /\ [][Next]_vars

\* A few routes and short runs, with every prompt and a concurrent call
\* that writes to another output path.
InitPair ==
    /\ \E rt \in ExecRoutes, pr \in AllPrompts, of \in OutPaths, run \in ShortRuns :
          /\ env = rt[1]
          /\ request = Request(rt[2], pr, of)
          /\ cli = [run EXCEPT !.state = rt[3]]
    /\ other \in {o \in OtherRequests : o.output_file # request.output_file}
    /\ InitCall

NextPair == Next \/ OtherCall

\* Every configuration and template, with short CLI runs: execute_template
\* is called.
InitTemplate ==
    /\ env \in Envs
    /\ template \in Templates
    /\ request = NoRequest
    /\ \E st \in CliStates, run \in TemplateRuns :
          cli = [run EXCEPT !.state = st]
    /\ other = NoRequest
    /\ pc = "template"
    /\ InitIdle

NextTemplate == execute_template \/ Next

\* The health check runs (health_check.py:62-139).
CheckEnvVars ==
    /\ active_llm_provider = "pending"
    /\ active_llm_provider' = check_env_vars(env)
    /\ UNCHANGED <<env, cli, request, pc, elapsed, fs, dirs, messages, result_message,
                   response, outcome, probes, dispatches, httpCalls, http,
                   backend, openai_model, openai_result, child_env, written,
                   other, otherWritten, template, openai_prompt, sql_route>>

\* The server answers a query (llm_processor.py:139-175).
GenerateSql ==
    /\ sql_route = NoRoute
    /\ \E llm_provider \in {"openai", "anthropic"} :
          sql_route' = generate_sql(env, llm_provider)
    /\ UNCHANGED <<env, cli, request, pc, elapsed, fs, dirs, messages, result_message,
                   response, outcome, probes, dispatches, httpCalls, http,
                   backend, openai_model, openai_result, child_env, written,
                   other, otherWritten, template, openai_prompt, active_llm_provider>>

\* Every configuration, read by a call of prompt_claude_code, by the
\* health check and by the server.
InitConfig ==
    /\ env \in Envs
    /\ \E st \in {"installed", "absent"} :
          /\ request = Request(NoVal, <<"/", "a">>, <<"out", ".jsonl">>)
          /\ cli = Cli(st, <<Progress, R2>>, 0, TRUE, 1)
    /\ other = NoRequest
    /\ InitCall

NextConfig == Next \/ CheckEnvVars \/ GenerateSql

SpecConfig == InitConfig /\ [][NextConfig]_vars

SpecTemplate == InitTemplate /\ [][NextTemplate]_vars

SpecPair == InitPair /\ [][NextPair]_vars

-----------------------------------------------------------------------------
(* Vocabulary of the properties.                                           *)

AnthropicConfigured == is_anthropic_enabled(env) /\ Truthy(env["ANTHROPIC_API_KEY"])

OpenAIConfigured == is_openai_enabled(env) /\ Truthy(env["OPENAI_API_KEY"])

\* The CLI ran, exited with status 0 and the handler finished (agent.py:293).
Collected == pc = "done" /\ dispatches = 1 /\ cli.exits /\ cli.code = 0

\* The handler met no exception while collecting (agent.py:333 not taken).
CollectedCleanly == Collected /\ response.output.text # ExecErrorMsg

\* The valid records of a stream, in stream order.
Records(ls) == SelectSeq(ls, LAMBDA l : l.k = "obj")

ResultPositions(ms) == {i \in DOMAIN ms : ms[i].type = "result"}

\* The last record of type "result", NoMessage when there is none.
LastResultOf(ms) ==
    IF ResultPositions(ms) = {} THEN NoMessage ELSE ms[MaxOf(ResultPositions(ms))]

\* Every line of the stream is a record or blank.
RecordsOnly(ls) == \A i \in DOMAIN ls : ls[i].k \in {"obj", "blank"}

-----------------------------------------------------------------------------
(* Properties.                                                             *)

\* C1: when neither provider is enabled-and-keyed, get_active_provider
\* returns None, no CLI subprocess is dispatched, no HTTP request is sent,
\* and a response the call returns is a failure.
C1_NoProviderFails ==
    (~AnthropicConfigured /\ ~OpenAIConfigured) =>
        /\ get_active_provider(env) = NoVal
        /\ dispatches = 0
        /\ httpCalls = 0
        /\ outcome = "returned" => ~response.success

\* C2: a request for "anthropic", with the CLI executable absent and OpenAI
\* enabled-and-keyed, never reaches the CLI dispatch and never returns the
\* executable-missing failure; a response it returns has no session id.
C2_FallbackToOpenAI ==
    (request.provider = "anthropic" /\ cli.state = "absent" /\ OpenAIConfigured) =>
        /\ pc \notin {"dispatch", "running"}
        /\ outcome = "returned" =>
              (response.output.text # NotInstalledMsg /\ response.session_id = NoVal)

\* C3: parse_jsonl_output skips blank lines and lines that are not JSON:
\* the messages it returns are the valid records of the stream in order,
\* and the result message is the last valid record of type "result".
C3_MalformedSkipped ==
    Collected =>
        /\ messages = Records(cli.out)
        /\ result_message = LastResultOf(Records(cli.out))

\* C4: the call does not go on waiting for a CLI subprocess that has run
\* longer than the timeout, and a call whose subprocess overran the
\* timeout returns the timed-out failure.
C4_TimeoutReturns ==
    /\ pc = "running" => elapsed <= Timeout
    /\ (pc = "done" /\ dispatches = 1 /\ elapsed > Timeout) =>
          response = Failure(TimedOutMsg)

\* C5: no exception escapes prompt_claude_code or execute_prompt_openai:
\* every call that ends returns a response.
C5_NoExceptionEscapes == outcome # "raised"

\* C6: with exactly one provider enabled-and-keyed, get_active_provider
\* returns that provider, whatever the other provider's flag and key;
\* with both enabled-and-keyed it returns "anthropic".
C6_ActiveProvider ==
    /\ (AnthropicConfigured /\ ~OpenAIConfigured) => get_active_provider(env) = "anthropic"
    /\ (OpenAIConfigured /\ ~AnthropicConfigured) => get_active_provider(env) = "openai"
    /\ (AnthropicConfigured /\ OpenAIConfigured) => get_active_provider(env) = "anthropic"

\* C6 witness: only OpenAI is enabled-and-keyed while Anthropic is enabled
\* without a key, and the router has acted on get_active_provider.
C6_Witness ==
    /\ pc = "openai"
    /\ request.provider = "anthropic"
    /\ OpenAIConfigured
    /\ is_anthropic_enabled(env)
    /\ ~Truthy(env["ANTHROPIC_API_KEY"])

\* C7: for a stream of records, the result message parse_jsonl_output
\* returns is the last record of type "result" in stream order, and it is
\* None only when no record has type "result".
C7_LastResultWins ==
    (Collected /\ RecordsOnly(cli.out)) =>
        /\ result_message = LastResultOf(Records(cli.out))
        /\ result_message = NoMessage <=> ResultPositions(Records(cli.out)) = {}

\* C7 witness: the stream [progress, R1 ok, R2 error] has been parsed and
\* R2 was selected.
C7_Witness ==
    /\ Collected
    /\ cli.out = <<Progress, R1, R2>>
    /\ result_message = R2

\* C8: when the CLI exits with status 0 and its stream holds a "result"
\* record, the response has success = NOT is_error of the last such
\* record (a missing is_error counts as false), output = its result field
\* and session_id = its session_id field.
C8_ResultMapped ==
    (CollectedCleanly /\ ResultPositions(Records(cli.out)) # {}) =>
        LET rm == LastResultOf(Records(cli.out)) IN
            /\ response.success = (rm.is_error # "true")
            /\ response.output = [text |-> rm.result, raw |-> NoFile]
            /\ response.session_id = rm.session_id

\* C9: when the CLI exits with status 0 and no result message is found,
\* the response has success = true, no session id, and as output the
\* line-delimited content the subprocess wrote.
C9_RawFallback ==
    (CollectedCleanly /\ result_message = NoMessage) =>
        response = RawResponse(LinesFile(cli.out))

\* C10: after convert_jsonl_to_json the JSON-array sibling is a file other
\* than the line-delimited file, it holds the records parse_jsonl_output
\* yields from the line-delimited content, and the line-delimited file
\* still parses to the same records.
C10_SiblingRoundTrip ==
    CollectedCleanly =>
        LET of == request.output_file IN
            /\ ReplaceJsonl(of) # of
            /\ ArrayRecords(fs[ReplaceJsonl(of)]) = parse_jsonl_output(LinesFile(cli.out)).messages
            /\ parse_jsonl_output(fs[of]).messages = ArrayRecords(fs[ReplaceJsonl(of)])

-----------------------------------------------------------------------------
(* Model mapping and routing to OpenAI.                                    *)

\* The names the mapping table knows.
KnownModels ==
    {"sonnet", "opus", "haiku", "claude-3-5-sonnet-20241022", "claude-3-5-haiku-20241022",
     "claude-3-opus-20240229", "claude-sonnet-4-20250514", "claude-opus-4-5-20251101"}

\* execute_prompt_openai has mapped the model and called prompt_openai.
OpenAICalled == backend = "openai" /\ openai_result # NoResult

\* C11: get_openai_model_for_claude_model is total: whatever model name the
\* request carries (a name of the table, the empty string, any other
\* string), the name sent to OpenAI is a non-empty model name, and it is
\* "gpt-4o" for every name outside the table.
C11_ModelMappingTotal ==
    OpenAICalled =>
        /\ openai_model \notin {NoVal, ""}
        /\ request.model \notin KnownModels => openai_model = "gpt-4o"

C11_Witness ==
    /\ OpenAICalled
    /\ request.model = ""
    /\ openai_model = "gpt-4o"

\* C12: a request that names "openai" is executed by execute_prompt_openai
\* in every configuration: the call never enters the CLI path, never probes
\* the CLI and never starts it, and when it is over execute_prompt_openai
\* has run.
C12_ExplicitOpenAI ==
    request.provider = "openai" =>
        /\ pc \in {"start", "openai", "done"}
        /\ probes = 0 /\ dispatches = 0
        /\ pc = "done" => backend = "openai"

C12_Witness ==
    /\ request.provider = "openai"
    /\ AnthropicConfigured /\ ~OpenAIConfigured
    /\ cli.state = "installed"
    /\ pc = "done" /\ backend = "openai"

-----------------------------------------------------------------------------
(* Preflight, process failure, HTTP outcomes.                              *)

\* C14: on the CLI path the probe precedes the dispatch.  The call is at
\* the dispatch step, or has started the CLI, only after a probe that
\* found the CLI; and a call that ends with the CLI absent, without having
\* gone to execute_prompt_openai, returned the not-installed failure.
C14_PreflightPrecedesDispatch ==
    /\ pc \in {"dispatch", "running"} \/ backend = "cli" =>
          probes = 1 /\ cli.state = "installed"
    /\ cli.state = "absent" /\ pc = "done" /\ backend # "openai" =>
          outcome = "returned" /\ response = Failure(NotInstalledMsg)

\* The CLI was started and has exited.
Exited == pc = "done" /\ dispatches = 1 /\ cli.exits

\* C15: when the CLI exits with a non-zero status the call returns a
\* failure without session id whose output is the captured stderr behind
\* its prefix, whatever the CLI wrote; the output file is left as the CLI
\* wrote it, nothing is parsed and no JSON array is written.
C15_NonZeroExit ==
    Exited /\ cli.code # 0 =>
        /\ outcome = "returned"
        /\ ~response.success
        /\ response.session_id = NoVal
        /\ response.output.text = "Claude Code error: " \o cli.stderr
        /\ messages = <<>> /\ result_message = NoMessage
        /\ fs[request.output_file] = LinesFile(cli.out)
        /\ fs[ReplaceJsonl(request.output_file)].fmt # "array"

C15_Witness ==
    /\ Exited /\ cli.code # 0
    /\ cli.stderr = "boom"
    /\ \E i \in DOMAIN cli.out : cli.out[i] = R1
    /\ request.output_file = <<"out", ".jsonl">>
    /\ outcome = "returned" /\ ~response.success

\* prompt_openai has sent its HTTP request.
HttpDone == OpenAICalled /\ http # NoVal

\* The results the classification names for a 401, another HTTP error
\* status, a network failure and a response without choices.
NamedFailures ==
    /\ http = "401" =>
          openai_result.output = "OpenAI API key is invalid (401 Unauthorized)"
    /\ http \in {"429", "500"} =>
          openai_result.output = "OpenAI API error: " \o http \o " reason - body"
    /\ http = "urlerror" =>
          openai_result.output = "OpenAI API connection failed: reason"
    /\ http = "nochoices" =>
          openai_result.output = "No response from OpenAI API"
    /\ http \in {"401", "429", "500", "urlerror", "nochoices"} => ~openai_result.success
    /\ ~openai_result.success => openai_result.usage = NoVal

\* The first choice's content and the usage object.
Completion ==
    /\ openai_result.success
    /\ openai_result.output = "A1"
    /\ openai_result.usage = "U1"

\* C16 as stated: a 401, another HTTP error status, a network failure and a
\* response without choices give their failures, and every other outcome
\* of the HTTP call gives success with the first choice's content and the
\* usage object.
C16_Classification ==
    HttpDone =>
        /\ NamedFailures
        /\ http \notin {"401", "429", "500", "urlerror", "nochoices"} => Completion

\* C16, amended: as stated, except that any other exception raised while
\* the request is sent or its response decoded gives a failure carrying
\* the exception's text; only a decoded response with choices gives
\* success.
C16_ClassificationWithCatchAll ==
    HttpDone =>
        /\ NamedFailures
        /\ http = "exception" =>
              /\ ~openai_result.success
              /\ openai_result.output = "OpenAI API error: exception"
        /\ http \notin {"401", "429", "500", "urlerror", "nochoices", "exception"} => Completion

C16_Witness ==
    /\ HttpDone
    /\ http = "exception"
    /\ ~openai_result.success
    /\ outcome = "returned" /\ response.output.text = "OpenAI API error: exception"

-----------------------------------------------------------------------------
(* Files of a call: concurrent calls, the prompt audit file.               *)

\* A second call runs concurrently and was given another output path.
Concurrent == other # NoRequest /\ other.output_file # request.output_file

\* C17: two concurrent calls that were given distinct output paths create
\* and write disjoint sets of files (output file, JSON sibling, prompt
\* audit file).
C17_DisjointFiles ==
    Concurrent => written \cap otherWritten = {}

\* The prompt starts with the marker character.
StartsWithMarker(prompt) == Len(prompt) > 0 /\ prompt[1] = "/"

\* The first whitespace-delimited token of a prompt.
FirstToken(prompt) ==
    LET spaces == {i \in DOMAIN prompt : prompt[i] = " "}
    IN  IF spaces = {} THEN prompt ELSE SubSeq(prompt, 1, MinOf(spaces) - 1)

\* <root>/agents/<adw_id>/<agent_name>/prompts/<command>.txt, <command>
\* the first token without its marker.
TokenFile(req) ==
    PromptDir(req.adw_id, req.agent_name) \o <<"/">> \o Tail(FirstToken(req.prompt)) \o <<".txt">>

\* save_prompt has been called and its own I/O did not fail.
PromptSaved == backend # NoVal /\ (outcome = "raised" => written # {} \/ dirs # {})

\* C18: once save_prompt has run, a prompt that starts with "/" has its
\* raw text in <root>/agents/<adw_id>/<agent_name>/prompts/<command>.txt,
\* <command> being the first whitespace-delimited token without the
\* marker; for any other prompt no audit file and no prompts directory
\* exist.
C18_AuditFile ==
    PromptSaved =>
        IF StartsWithMarker(request.prompt)
        THEN /\ TokenFile(request) \in written
             /\ fs[TokenFile(request)] = TextFile(request.prompt)
        ELSE /\ \A p \in written : p \in {request.output_file, ReplaceJsonl(request.output_file)}
             /\ PromptDir(request.adw_id, request.agent_name) \notin dirs

-----------------------------------------------------------------------------
(* The environment of the CLI subprocess; enablement defaults.             *)

\* get_claude_env has built the environment of the subprocess.
EnvBuilt == backend = "cli" /\ child_env # NoEnv

\* What holds of the environment built from the inherited one.
OverlayOnly ==
    \A v \in AllVars :
        /\ env[v] # NoVal => child_env[v] # NoVal
        /\ child_env[v] # env[v] => v \in ConfigKeys /\ Truthy(child_env[v])
        /\ v \notin ConfigKeys => child_env[v] = env[v]

FlagsAbsent == env["ANTHROPIC_ENABLED"] = NoVal /\ env["OPENAI_ENABLED"] = NoVal

\* C20: an absent flag leaves Anthropic enabled and OpenAI disabled; a flag
\* that is set enables its provider only if it reads "true" in any case.
\* With both flags absent, both keys make Anthropic the active provider,
\* and the OpenAI key alone makes no provider active: a request that does
\* not name OpenAI then sends no HTTP request.
C20_EnablementDefaults ==
    /\ env["ANTHROPIC_ENABLED"] = NoVal => is_anthropic_enabled(env)
    /\ env["OPENAI_ENABLED"] = NoVal => ~is_openai_enabled(env)
    /\ env["ANTHROPIC_ENABLED"] # NoVal =>
          (is_anthropic_enabled(env) <=> env["ANTHROPIC_ENABLED"] \in {"true", "TRUE"})
    /\ env["OPENAI_ENABLED"] # NoVal =>
          (is_openai_enabled(env) <=> env["OPENAI_ENABLED"] \in {"true", "TRUE"})
    /\ FlagsAbsent /\ Truthy(env["ANTHROPIC_API_KEY"]) /\ Truthy(env["OPENAI_API_KEY"]) =>
          get_active_provider(env) = "anthropic"
    /\ FlagsAbsent /\ ~Truthy(env["ANTHROPIC_API_KEY"]) /\ Truthy(env["OPENAI_API_KEY"]) =>
          /\ get_active_provider(env) = NoVal
          /\ request.provider # "openai" => backend # "openai" /\ httpCalls = 0

C20_Witness ==
    /\ FlagsAbsent /\ ~Truthy(env["ANTHROPIC_API_KEY"]) /\ Truthy(env["OPENAI_API_KEY"])
    /\ request.provider = "anthropic"
    /\ cli.state = "absent"
    /\ pc = "done" /\ probes = 1 /\ httpCalls = 0

-----------------------------------------------------------------------------
(* Single attempt; templates; the three provider derivations.              *)

\* C21: a call makes at most one back-end attempt: at most one CLI
\* subprocess, at most one HTTP request, never both; an HTTP request is
\* sent only by a call that started no CLI subprocess, so the fall-back to
\* OpenAI comes before any dispatch and nothing is tried again.
C21_SingleAttempt ==
    /\ dispatches <= 1
    /\ httpCalls <= 1
    /\ dispatches + httpCalls <= 1
    /\ backend = "openai" => dispatches = 0

C21_Witness ==
    /\ pc = "done"
    /\ request.provider = NoVal
    /\ probes = 1 /\ cli.state = "absent"
    /\ backend = "openai" /\ httpCalls = 1 /\ dispatches = 0
    /\ outcome = "returned" /\ ~response.success

\* execute_template has built its request and called prompt_claude_code.
TemplateCalled == template # NoTemplate /\ request # NoRequest

\* slash_command, a space, and the arguments with a space between them.
Flattened(t) ==
    IF Len(t.args) = 0 THEN t.slash_command \o <<" ">>
    ELSE IF Len(t.args) = 1 THEN t.slash_command \o <<" ">> \o t.args[1]
    ELSE t.slash_command \o <<" ">> \o t.args[1] \o <<" ">> \o t.args[2]

\* What prompt_claude_code does at its start with the provider the
\* template names.
OriginalRoutesToOpenAI == RoutesToOpenAI(env, [request EXCEPT !.provider = template.provider])

\* C22: the request execute_template builds carries the flattened prompt
\* and skip-permissions.  A template that names "anthropic" while only
\* OpenAI is active becomes a request for "openai": that prompt goes to
\* prompt_openai and the CLI is neither probed nor started.  In every
\* configuration the call takes the route prompt_claude_code takes for the
\* provider the template names.
C22_TemplateRouting ==
    TemplateCalled =>
        /\ request.prompt = Flattened(template)
        /\ request.dangerously_skip_permissions
        /\ template.provider = "anthropic" /\ ~AnthropicConfigured /\ OpenAIConfigured =>
              /\ request.provider = "openai"
              /\ probes = 0 /\ dispatches = 0
              /\ pc = "done" => backend = "openai"
              /\ OpenAICalled => openai_prompt = Flattened(template)
        /\ RoutesToOpenAI(env, request) = OriginalRoutesToOpenAI
        /\ backend = "openai" /\ probes = 0 => OriginalRoutesToOpenAI
        /\ probes = 1 \/ backend = "cli" => ~OriginalRoutesToOpenAI

C22_Witness ==
    /\ TemplateCalled
    /\ template.provider = "anthropic" /\ ~AnthropicConfigured /\ OpenAIConfigured
    /\ Len(template.args) = 2
    /\ pc = "done" /\ OpenAICalled
    /\ openai_prompt = <<"/", "a", " ", "b", " ", "a">>
    /\ request.provider = "openai"

\* C23: the three derivations agree: what check_env_vars reports is what
\* get_active_provider returns; generate_sql, when it routes by the
\* configuration (rules 1 and 2), calls that provider; and it goes on to
\* the request's preference or to its error exactly when
\* get_active_provider returns None.
C23_DerivationsAgree ==
    /\ active_llm_provider # "pending" => active_llm_provider = get_active_provider(env)
    /\ sql_route # NoRoute =>
          /\ sql_route.priority \in {1, 2} => sql_route.provider = get_active_provider(env)
          /\ sql_route.priority \in {3, 4} <=> get_active_provider(env) = NoVal

-----------------------------------------------------------------------------
(* The executable-missing failure.                                         *)

\* The call returned the executable-missing failure.
NotInstalledReturned == outcome = "returned" /\ response = Failure(NotInstalledMsg)

\* C24: a call that returns the executable-missing failure has left the
\* file system as it found it: no audit file, no output file, no JSON
\* sibling and no directory was created or written.
C24_MissingLeavesNoFiles ==
    NotInstalledReturned =>
        /\ written = {}
        /\ dirs = {}
        /\ \A p \in AllPaths : fs[p] = NoFile

C24_Witness ==
    /\ NotInstalledReturned
    /\ cli.state = "absent" /\ probes = 1
    /\ SavesPrompt(request)
    /\ Dirname(request.output_file) # <<>>

====
